---- MODULE Spec2Model ----
(***************************************************************************)
(* Selfish-mining simulation engine of quant.py.                           *)
(*                                                                         *)
(* Floating-point quantities (alpha, gamma, the draws of random.random(),  *)
(* the derived ratios) are modelled as exact rationals <<n, d>> with d > 0 *)
(* in lowest terms.  The shared module-level generator `random` is a       *)
(* position in a stream: random.seed(s) moves to position 0 of stream s,   *)
(* every random.random() reads the value at the position and advances.     *)
(* The content of a stream is unknown until it is read for the first time  *)
(* (any value of DrawValues) and fixed afterwards, as for a deterministic  *)
(* generator.                                                              *)
(***************************************************************************)
EXTENDS Integers, Sequences, FiniteSets, TLC

VARIABLES
    op,     \* the public call in progress: its name, arguments, the
            \* simulate_* calls it still has to make and their results so far
    sim,    \* the frame of the simulate_* call in progress (locals of the loop)
    rng,    \* state of the shared generator: [stream, pos]
    tape,   \* the values each stream has produced so far
    out,    \* the value returned by the last public call that finished
    runs,   \* history: every simulate_* call finished so far, in order, with
            \* its result
    ncalls  \* number of public calls started in this process

vars == <<op, sim, rng, tape, out, runs, ncalls>>

----------------------------------------------------------------------------
(* Bounds *)

MaxRounds == 3

----------------------------------------------------------------------------
(* Rationals standing for Python floats *)

Abs(n) == IF n < 0 THEN -n ELSE n

RECURSIVE GCD(_, _)
GCD(a, b) == IF b = 0 THEN a ELSE GCD(b, a % b)

R(n, d) ==
    LET s == IF d < 0 THEN -1 ELSE 1
        g == GCD(Abs(n), Abs(d))
    IN  <<(s * n) \div g, (s * d) \div g>>

Z(n) == <<n, 1>>

RLt(x, y) == x[1] * y[2] < y[1] * x[2]
RLe(x, y) == x[1] * y[2] <= y[1] * x[2]
RAdd(x, y) == R(x[1] * y[2] + y[1] * x[2], x[2] * y[2])
RSub(x, y) == R(x[1] * y[2] - y[1] * x[2], x[2] * y[2])
RMul(x, y) == R(x[1] * y[1], x[2] * y[2])
RDiv(x, y) == R(x[1] * y[2], x[2] * y[1])
RMax(x, y) == IF RLt(x, y) THEN y ELSE x
RMin(x, y) == IF RLt(y, x) THEN y ELSE x

\* int(x): truncation toward zero
RInt(x) == IF x[1] >= 0 THEN x[1] \div x[2] ELSE -((-x[1]) \div x[2])

----------------------------------------------------------------------------
(* The shared generator *)

\* An absent seed (None) is <<>>, a given seed s is <<s>>.
None == <<>>
Some(s) == <<s>>

\* random.random() returns a float in [0, 1)
DrawValues == {R(10, 100), R(60, 100), R(95, 100)}

Ambient == [stream |-> None, pos |-> 0]

Written(t, g) == IF g.stream \in DOMAIN t THEN t[g.stream] ELSE <<>>

\* the values random.random() can return in generator state g
Draws(t, g) ==
    IF g.pos < Len(Written(t, g)) THEN {Written(t, g)[g.pos + 1]} ELSE DrawValues

\* the generator and the streams after random.random() returned d
Drawn(t, g, d) ==
    [rng  |-> [g EXCEPT !.pos = @ + 1],
     tape |-> IF g.pos < Len(Written(t, g)) THEN t
              ELSE (g.stream :> Append(Written(t, g), d)) @@ t]

\* faulty variant: the seed is not applied
SeedIgnored(g, seed) == g

\* if seed is not None: random.seed(seed)
Seeded(g, seed) == IF seed # None THEN [stream |-> seed, pos |-> 0] ELSE g

----------------------------------------------------------------------------
(* SimulationResult *)

SimulationResult(alpha, gamma, rounds, attacker_blocks, honest_blocks) ==
    [alpha |-> alpha, gamma |-> gamma, rounds |-> rounds,
     attacker_blocks |-> attacker_blocks, honest_blocks |-> honest_blocks]

block_reward == R(625, 100)
avg_tx_fee_per_block == R(5, 10)

\* faulty variant: the rounds simulated instead of the blocks credited
total_blocks_of_rounds(self) == self.rounds

total_blocks(self) == self.attacker_blocks + self.honest_blocks

attacker_relative_reward(self) ==
    IF total_blocks(self) = 0 THEN Z(0)
    ELSE R(self.attacker_blocks, total_blocks(self))

honest_relative_reward(self) ==
    IF total_blocks(self) = 0 THEN Z(0)
    ELSE R(self.honest_blocks, total_blocks(self))

attacker_revenue_btc(self) ==
    RMul(Z(self.attacker_blocks), RAdd(block_reward, avg_tx_fee_per_block))

honest_revenue_btc(self) ==
    RMul(Z(self.honest_blocks), RAdd(block_reward, avg_tx_fee_per_block))

efficiency_advantage(self) ==
    IF RLe(self.alpha, Z(0)) THEN Z(0)
    ELSE RDiv(attacker_relative_reward(self), self.alpha)

----------------------------------------------------------------------------
(* The loops of simulate_all_honest and simulate_selfish_mining *)

\* A simulate_* call: the function and its arguments.
SimCall(fn, alpha, gamma, rounds, seed) ==
    [fn |-> fn, alpha |-> alpha, gamma |-> gamma, rounds |-> rounds, seed |-> seed]

NoSim == [status |-> "idle"]

\* the locals on entry to the loop; i counts the iterations done, orphans the
\* honest blocks found at lead >= 2 and ndraws the calls of random.random().
\* found, lost and leads are the history of the selfish loop: the rounds whose
\* draw was below alpha, the forks whose draw was not below gamma, and the
\* value of lead after each round.
Frame(call) ==
    [status |-> "loop", call |-> call, i |-> 0,
     attacker_blocks |-> 0, honest_blocks |-> 0, lead |-> 0,
     orphans |-> 0, ndraws |-> 0,
     found |-> 0, lost |-> 0, leads |-> <<>>]

\* faulty variant: the two sides of the comparison are swapped
all_honest_round_swapped(s, r) ==
    IF RLt(r, s.call.alpha)
    THEN [s EXCEPT !.i = @ + 1, !.ndraws = @ + 1, !.honest_blocks = @ + 1]
    ELSE [s EXCEPT !.i = @ + 1, !.ndraws = @ + 1, !.attacker_blocks = @ + 1]

\* one iteration of the loop of simulate_all_honest with draw r
all_honest_round(s, r) ==
    IF RLt(r, s.call.alpha)
    THEN [s EXCEPT !.i = @ + 1, !.ndraws = @ + 1, !.attacker_blocks = @ + 1]
    ELSE [s EXCEPT !.i = @ + 1, !.ndraws = @ + 1, !.honest_blocks = @ + 1]

\* faulty variant: the fork is not drawn when gamma leaves it no chance
ForksUnlessCertain(s, r) ==
    ~RLt(r, s.call.alpha) /\ s.lead = 1 /\ RLt(Z(0), s.call.gamma)

\* the iteration with draw r reaches r_fork = random.random()
Forks(s, r) == ~RLt(r, s.call.alpha) /\ s.lead = 1

\* faulty variant: the honest block found at lead >= 2 is credited as well
selfish_round_crediting_orphan(s, r, r_fork) ==
    IF RLt(r, s.call.alpha) THEN
        [s EXCEPT !.i = @ + 1, !.ndraws = @ + 1, !.lead = @ + 1]
    ELSE IF s.lead = 0 THEN
        [s EXCEPT !.i = @ + 1, !.ndraws = @ + 1, !.honest_blocks = @ + 1]
    ELSE IF s.lead = 1 THEN
        IF RLt(r_fork, s.call.gamma)
        THEN [s EXCEPT !.i = @ + 1, !.ndraws = @ + 2,
                       !.attacker_blocks = @ + 2, !.lead = 0]
        ELSE [s EXCEPT !.i = @ + 1, !.ndraws = @ + 2,
                       !.honest_blocks = @ + 2, !.lead = 0]
    ELSE
        [s EXCEPT !.i = @ + 1, !.ndraws = @ + 1, !.attacker_blocks = @ + 1,
                  !.honest_blocks = @ + 1, !.lead = @ - 1, !.orphans = @ + 1]

\* faulty variant: the two outcomes of the fork are swapped
selfish_round_fork_swapped(s, r, r_fork) ==
    IF RLt(r, s.call.alpha) THEN
        [s EXCEPT !.i = @ + 1, !.ndraws = @ + 1, !.lead = @ + 1]
    ELSE IF s.lead = 0 THEN
        [s EXCEPT !.i = @ + 1, !.ndraws = @ + 1, !.honest_blocks = @ + 1]
    ELSE IF s.lead = 1 THEN
        IF RLt(r_fork, s.call.gamma)
        THEN [s EXCEPT !.i = @ + 1, !.ndraws = @ + 2,
                       !.honest_blocks = @ + 2, !.lead = 0]
        ELSE [s EXCEPT !.i = @ + 1, !.ndraws = @ + 2,
                       !.attacker_blocks = @ + 2, !.lead = 0]
    ELSE
        [s EXCEPT !.i = @ + 1, !.ndraws = @ + 1, !.attacker_blocks = @ + 1,
                  !.lead = @ - 1, !.orphans = @ + 1]

\* faulty variant: the case lead == 0 of an honest block is missing
selfish_round_publishing_at_zero(s, r, r_fork) ==
    IF RLt(r, s.call.alpha) THEN
        IF s.lead = 0
        THEN [s EXCEPT !.i = @ + 1, !.ndraws = @ + 1, !.lead = 1]
        ELSE [s EXCEPT !.i = @ + 1, !.ndraws = @ + 1, !.lead = @ + 1]
    ELSE IF s.lead = 1 THEN
        IF RLt(r_fork, s.call.gamma)
        THEN [s EXCEPT !.i = @ + 1, !.ndraws = @ + 2,
                       !.attacker_blocks = @ + 2, !.lead = 0]
        ELSE [s EXCEPT !.i = @ + 1, !.ndraws = @ + 2,
                       !.honest_blocks = @ + 2, !.lead = 0]
    ELSE
        [s EXCEPT !.i = @ + 1, !.ndraws = @ + 1, !.attacker_blocks = @ + 1,
                  !.lead = @ - 1, !.orphans = @ + 1]

\* faulty variant: lead is not reset after the fork
selfish_round_fork_keeps_lead(s, r, r_fork) ==
    IF RLt(r, s.call.alpha) THEN
        IF s.lead = 0
        THEN [s EXCEPT !.i = @ + 1, !.ndraws = @ + 1, !.lead = 1]
        ELSE [s EXCEPT !.i = @ + 1, !.ndraws = @ + 1, !.lead = @ + 1]
    ELSE IF s.lead = 0 THEN
        [s EXCEPT !.i = @ + 1, !.ndraws = @ + 1, !.honest_blocks = @ + 1]
    ELSE IF s.lead = 1 THEN
        IF RLt(r_fork, s.call.gamma)
        THEN [s EXCEPT !.i = @ + 1, !.ndraws = @ + 2, !.attacker_blocks = @ + 2]
        ELSE [s EXCEPT !.i = @ + 1, !.ndraws = @ + 2, !.honest_blocks = @ + 2]
    ELSE
        [s EXCEPT !.i = @ + 1, !.ndraws = @ + 1, !.attacker_blocks = @ + 1,
                  !.lead = @ - 1, !.orphans = @ + 1]

\* faulty variant: at lead >= 2 the whole private branch is published
selfish_round_publishing_all(s, r, r_fork) ==
    IF RLt(r, s.call.alpha) THEN
        IF s.lead = 0
        THEN [s EXCEPT !.i = @ + 1, !.ndraws = @ + 1, !.lead = 1]
        ELSE [s EXCEPT !.i = @ + 1, !.ndraws = @ + 1, !.lead = @ + 1]
    ELSE IF s.lead = 0 THEN
        [s EXCEPT !.i = @ + 1, !.ndraws = @ + 1, !.honest_blocks = @ + 1]
    ELSE IF s.lead = 1 THEN
        IF RLt(r_fork, s.call.gamma)
        THEN [s EXCEPT !.i = @ + 1, !.ndraws = @ + 2,
                       !.attacker_blocks = @ + 2, !.lead = 0]
        ELSE [s EXCEPT !.i = @ + 1, !.ndraws = @ + 2,
                       !.honest_blocks = @ + 2, !.lead = 0]
    ELSE
        [s EXCEPT !.i = @ + 1, !.ndraws = @ + 1, !.attacker_blocks = @ + s.lead,
                  !.lead = 0, !.orphans = @ + 1]

\* faulty variant: a block found by the attacker is credited at once
selfish_round_crediting_found(s, r, r_fork) ==
    IF RLt(r, s.call.alpha) THEN
        IF s.lead = 0
        THEN [s EXCEPT !.i = @ + 1, !.ndraws = @ + 1, !.lead = 1,
                       !.attacker_blocks = @ + 1]
        ELSE [s EXCEPT !.i = @ + 1, !.ndraws = @ + 1, !.lead = @ + 1,
                       !.attacker_blocks = @ + 1]
    ELSE IF s.lead = 0 THEN
        [s EXCEPT !.i = @ + 1, !.ndraws = @ + 1, !.honest_blocks = @ + 1]
    ELSE IF s.lead = 1 THEN
        IF RLt(r_fork, s.call.gamma)
        THEN [s EXCEPT !.i = @ + 1, !.ndraws = @ + 2,
                       !.attacker_blocks = @ + 2, !.lead = 0]
        ELSE [s EXCEPT !.i = @ + 1, !.ndraws = @ + 2,
                       !.honest_blocks = @ + 2, !.lead = 0]
    ELSE
        [s EXCEPT !.i = @ + 1, !.ndraws = @ + 1, !.attacker_blocks = @ + 1,
                  !.lead = @ - 1, !.orphans = @ + 1]

\* faulty variant: the honest block found at lead 0 opens a fork
selfish_round_forking_at_zero(s, r, r_fork) ==
    IF RLt(r, s.call.alpha) THEN
        IF s.lead = 0
        THEN [s EXCEPT !.i = @ + 1, !.ndraws = @ + 1, !.lead = 1]
        ELSE [s EXCEPT !.i = @ + 1, !.ndraws = @ + 1, !.lead = @ + 1]
    ELSE IF s.lead <= 1 THEN
        IF RLt(r_fork, s.call.gamma)
        THEN [s EXCEPT !.i = @ + 1, !.ndraws = @ + 2,
                       !.attacker_blocks = @ + 2, !.lead = 0]
        ELSE [s EXCEPT !.i = @ + 1, !.ndraws = @ + 2,
                       !.honest_blocks = @ + 2, !.lead = 0]
    ELSE
        [s EXCEPT !.i = @ + 1, !.ndraws = @ + 1, !.attacker_blocks = @ + 1,
                  !.lead = @ - 1, !.orphans = @ + 1]

\* one iteration of the loop of simulate_selfish_mining with draw r (and fork
\* draw r_fork, read only when Forks(s, r))
selfish_round(s, r, r_fork) ==
    IF RLt(r, s.call.alpha) THEN
        IF s.lead = 0
        THEN [s EXCEPT !.i = @ + 1, !.ndraws = @ + 1, !.lead = 1]
        ELSE [s EXCEPT !.i = @ + 1, !.ndraws = @ + 1, !.lead = @ + 1]
    ELSE IF s.lead = 0 THEN
        [s EXCEPT !.i = @ + 1, !.ndraws = @ + 1, !.honest_blocks = @ + 1]
    ELSE IF s.lead = 1 THEN
        IF RLt(r_fork, s.call.gamma)
        THEN [s EXCEPT !.i = @ + 1, !.ndraws = @ + 2,
                       !.attacker_blocks = @ + 2, !.lead = 0]
        ELSE [s EXCEPT !.i = @ + 1, !.ndraws = @ + 2,
                       !.honest_blocks = @ + 2, !.lead = 0]
    ELSE
        [s EXCEPT !.i = @ + 1, !.ndraws = @ + 1, !.attacker_blocks = @ + 1,
                  !.lead = @ - 1, !.orphans = @ + 1]

\* the frame t reached from s by a round with draws r and r_fork, with the
\* history of the round written from the draws themselves
Observed(s, t, r, r_fork) ==
    [t EXCEPT !.found = IF RLt(r, s.call.alpha) THEN @ + 1 ELSE @,
              !.lost = IF Forks(s, r) /\ ~RLt(r_fork, s.call.gamma) THEN @ + 1 ELSE @,
              !.leads = Append(@, t.lead)]

\* faulty variant: the loop body runs once before rounds is tested
LoopDoneAfterFirst(s) == s.i >= s.call.rounds /\ s.i >= 1

\* for _ in range(rounds): the loop is over
LoopDone(s) == s.i >= s.call.rounds

\* the value simulate_all_honest returns after its loop
all_honest_return(s) ==
    SimulationResult(s.call.alpha, Z(0), s.call.rounds,
                     s.attacker_blocks, s.honest_blocks)

\* faulty variant: the remaining lead is not settled
selfish_mining_return_unsettled(s) ==
    SimulationResult(s.call.alpha, s.call.gamma, s.call.rounds,
                     s.attacker_blocks, s.honest_blocks)

\* faulty variant: one block is credited for the remaining lead, whatever it is
selfish_mining_return_one_block(s) ==
    SimulationResult(s.call.alpha, s.call.gamma, s.call.rounds,
                     IF s.lead > 0 THEN s.attacker_blocks + 1
                     ELSE s.attacker_blocks,
                     s.honest_blocks)

\* settlement of the remaining lead and the value simulate_selfish_mining returns
selfish_mining_return(s) ==
    SimulationResult(s.call.alpha, s.call.gamma, s.call.rounds,
                     IF s.lead > 0 THEN s.attacker_blocks + s.lead
                     ELSE s.attacker_blocks,
                     s.honest_blocks)

Returned(s) ==
    IF s.call.fn = "honest" THEN all_honest_return(s) ELSE selfish_mining_return(s)

----------------------------------------------------------------------------
(* simulate_selfish_with_defense *)

Selfish(alpha, gamma, rounds, seed) == SimCall("selfish", alpha, gamma, rounds, seed)
Honest(alpha, rounds, seed) == SimCall("honest", alpha, Z(0), rounds, seed)

\* faulty variant: the defended run reuses the seed
seed_defense_same(seed) == seed

\* seed_defense = None if seed is None else seed + 1
seed_defense(seed) == IF seed = None THEN None ELSE Some(seed[1] + 1)

\* the simulate_selfish_mining calls simulate_selfish_with_defense makes
with_defense_calls(alpha, gamma_attack, gamma_defense, rounds, defense_enabled, seed) ==
    IF ~defense_enabled
    THEN <<Selfish(alpha, gamma_attack, rounds, seed)>>
    ELSE <<Selfish(alpha, gamma_attack, rounds, seed),
           Selfish(alpha, gamma_defense, rounds, seed_defense(seed))>>

\* the pair it returns, from the results of those calls
with_defense_return(defense_enabled, results) ==
    IF ~defense_enabled
    THEN <<results[1], results[1]>>
    ELSE <<results[1], results[2]>>

----------------------------------------------------------------------------
(* parameter_sweep_analysis *)

\* alpha_min + (alpha_max - alpha_min) * i / (alpha_steps - 1) for i in range(alpha_steps)
alpha_values(alpha_min, alpha_max, alpha_steps) ==
    [k \in 1 .. alpha_steps |->
        RAdd(alpha_min,
             RDiv(RMul(RSub(alpha_max, alpha_min), Z(k - 1)), Z(alpha_steps - 1)))]

\* faulty variant: every grid of fewer than 2 steps divides by zero
sweep_error_division_only(alpha_steps) ==
    IF alpha_steps < 2 THEN "ZeroDivisionError" ELSE "none"

\* building the grid raises: ZeroDivisionError for one step, and with no step
\* the grid is empty and alpha_values[0] raises IndexError
sweep_error(alpha_steps) ==
    IF alpha_steps = 1 THEN "ZeroDivisionError"
    ELSE IF alpha_steps < 1 THEN "IndexError"
    ELSE "none"

RECURSIVE sweep_calls(_, _, _, _, _)
sweep_calls(alphas, k, gamma_attack, gamma_defense, rounds) ==
    IF k > Len(alphas) THEN <<>>
    ELSE with_defense_calls(alphas[k], gamma_attack, gamma_defense, rounds, TRUE,
                            Some(RInt(RMul(alphas[k], Z(1000)))))
         \o sweep_calls(alphas, k + 1, gamma_attack, gamma_defense, rounds)

\* the entry of results for grid point k
sweep_point(alphas, k, results) ==
    LET pair == with_defense_return(TRUE, <<results[2 * k - 1], results[2 * k]>>)
        no_defense == pair[1]
    IN  [alpha |-> alphas[k],
         no_defense |-> no_defense,
         with_defense |-> pair[2],
         revenue_advantage_btc |->
            RSub(attacker_revenue_btc(no_defense),
                 RMul(alphas[k],
                      RMul(Z(total_blocks(no_defense)), R(675, 100)))),
         efficiency_gain |-> efficiency_advantage(no_defense)]

\* faulty variant: if efficiency_gain >= max_advantage
sweep_improves_or_ties(efficiency_gain, max_advantage) == RLe(max_advantage, efficiency_gain)

\* if efficiency_gain > max_advantage
sweep_improves(efficiency_gain, max_advantage) == RLt(max_advantage, efficiency_gain)

\* the loop over the grid from point k on, with the running maximum
RECURSIVE sweep_loop(_, _, _, _)
sweep_loop(points, k, max_advantage, optimal_alpha) ==
    IF k > Len(points)
    THEN [optimal_alpha |-> optimal_alpha, max_efficiency_gain |-> max_advantage]
    ELSE IF sweep_improves(points[k].efficiency_gain, max_advantage)
    THEN sweep_loop(points, k + 1, points[k].efficiency_gain, points[k].alpha)
    ELSE sweep_loop(points, k + 1, max_advantage, optimal_alpha)

sweep_return(alpha_min, alpha_max, alpha_steps, results) ==
    IF sweep_error(alpha_steps) # "none" THEN [raised |-> sweep_error(alpha_steps)]
    ELSE
    LET alphas == alpha_values(alpha_min, alpha_max, alpha_steps)
        points == [k \in 1 .. alpha_steps |-> sweep_point(alphas, k, results)]
        best == sweep_loop(points, 1, Z(0), alphas[1])
    IN  [raised |-> "none",
         results |-> points,
         optimal_alpha |-> best.optimal_alpha,
         max_efficiency_gain |-> best.max_efficiency_gain]

----------------------------------------------------------------------------
(* cross_chain_attack *)

coordination_cost_per_chain == R(1, 100)

\* chain_seed = None if seed is None else seed + i * 1000
chain_seed(seed, i) == IF seed = None THEN None ELSE Some(seed[1] + i * 1000)

cross_chain_calls(alpha, num_chains, gamma, rounds_per_chain, seed) ==
    [k \in 1 .. num_chains |->
        Selfish(alpha, gamma, rounds_per_chain, chain_seed(seed, k - 1))]
    \o <<Selfish(alpha, gamma, rounds_per_chain, seed)>>

RECURSIVE total_revenue(_, _)
total_revenue(results, n) ==
    IF n = 0 THEN Z(0)
    ELSE RAdd(total_revenue(results, n - 1), attacker_revenue_btc(results[n]))

cross_chain_return(num_chains, results) ==
    LET coordination_overhead == RMul(coordination_cost_per_chain, Z(num_chains - 1))
        total == total_revenue(results, num_chains)
        effective_revenue == RMul(total, RSub(Z(1), coordination_overhead))
        single_chain_result == results[num_chains + 1]
        single == attacker_revenue_btc(single_chain_result)
    IN  [results_per_chain |-> SubSeq(results, 1, num_chains),
         single_chain_btc |-> single,
         multi_chain_total_before_cost_btc |-> total,
         multi_chain_total_after_cost_btc |-> effective_revenue,
         coordination_overhead_percent |-> RMul(coordination_overhead, Z(100)),
         multiplier_effect |->
            IF RLt(Z(0), single) THEN RDiv(effective_revenue, single) ELSE Z(1)]

----------------------------------------------------------------------------
(* defense_mechanism_comparison *)

defense_strategies == <<R(5, 10), R(5, 10), R(4, 10), R(3, 10), R(2, 10)>>

RECURSIVE strategy_calls(_, _, _)
strategy_calls(alpha, rounds, k) ==
    IF k > Len(defense_strategies) THEN <<>>
    ELSE with_defense_calls(alpha, R(9, 10), defense_strategies[k], rounds, TRUE,
                            Some(RInt(RMul(defense_strategies[k], Z(10000)))))
         \o strategy_calls(alpha, rounds, k + 1)

defense_comparison_calls(alpha, rounds) ==
    with_defense_calls(alpha, R(9, 10), R(5, 10), rounds, TRUE, Some(2025))
    \o strategy_calls(alpha, rounds, 1)

defense_comparison_return(results) ==
    [baseline_no_defense |->
        with_defense_return(TRUE, <<results[1], results[2]>>)[1],
     strategies |->
        [k \in 1 .. Len(defense_strategies) |->
            LET with_defense ==
                    with_defense_return(TRUE, <<results[2 * k + 1], results[2 * k + 2]>>)[2]
            IN  [gamma |-> defense_strategies[k],
                 result |-> with_defense,
                 improvement_percent |->
                    RMul(RSub(Z(1), efficiency_advantage(with_defense)), Z(100))]]]

----------------------------------------------------------------------------
(* pool_cooperative_mining *)

\* coordination_overhead = 0.02 * (num_pools - 1)
\* effective_alpha = max(0, alpha - coordination_overhead)
effective_alpha(alpha, num_pools) ==
    RMax(Z(0), RSub(alpha, RMul(R(2, 100), Z(num_pools - 1))))

pool_calls(alpha, num_pools, gamma, rounds, seed) ==
    <<Selfish(effective_alpha(alpha, num_pools), gamma, rounds, seed)>>

\* faulty variant: the result keeps the alpha it was simulated with
pool_return_unlabelled(alpha, results) == results[1]

\* result.alpha = alpha; return result
pool_return(alpha, results) == [results[1] EXCEPT !.alpha = alpha]

----------------------------------------------------------------------------
(* mev_transaction_ordering *)

mev_calls(alpha, gamma, rounds, seed) == <<Selfish(alpha, gamma, rounds, seed)>>

\* faulty variant: the fallback denominator of revenue_per_hashrate is used
revenue_advantage_fallback_hashrate(enhanced_revenue, honest_revenue) ==
    RDiv(RSub(enhanced_revenue, honest_revenue),
         IF RLt(Z(0), honest_revenue) THEN honest_revenue ELSE R(1, 100))

\* (enhanced_revenue - honest_revenue) / (honest_revenue if honest_revenue > 0 else 1)
revenue_advantage_vs_honest(enhanced_revenue, honest_revenue) ==
    RDiv(RSub(enhanced_revenue, honest_revenue),
         IF RLt(Z(0), honest_revenue) THEN honest_revenue ELSE Z(1))

mev_return(alpha, mev_extract_probability, avg_mev_per_block, results) ==
    LET attacker_result == results[1]
        mev_blocks == RInt(RMul(Z(attacker_result.attacker_blocks),
                                mev_extract_probability))
        total_mev_revenue == RMul(Z(mev_blocks), avg_mev_per_block)
        enhanced_revenue == RAdd(attacker_revenue_btc(attacker_result),
                                 total_mev_revenue)
        honest_revenue == honest_revenue_btc(attacker_result)
    IN  [alpha |-> alpha,
         mev_extract_probability |-> mev_extract_probability,
         avg_mev_per_block_btc |-> avg_mev_per_block,
         attacker_blocks |-> attacker_result.attacker_blocks,
         mev_extractable_blocks |-> mev_blocks,
         base_revenue_btc |-> attacker_revenue_btc(attacker_result),
         mev_revenue_btc |-> total_mev_revenue,
         total_enhanced_revenue_btc |-> enhanced_revenue,
         honest_revenue_btc |-> honest_revenue,
         revenue_advantage_vs_honest |->
            revenue_advantage_vs_honest(enhanced_revenue, honest_revenue),
         revenue_per_hashrate |->
            RDiv(enhanced_revenue, IF RLt(Z(0), alpha) THEN alpha ELSE R(1, 100))]

----------------------------------------------------------------------------
(* timing_optimization_attack *)

\* delay_ratio = network_delay_ms / (block_time_sec * 1000)
delay_ratio(network_delay_ms, block_time_sec) ==
    RDiv(network_delay_ms, RMul(block_time_sec, Z(1000)))

\* faulty variant: the result is clamped to [0, 1], the ratio is not capped
gamma_effective_floor_zero(ratio) ==
    RMax(Z(0), RMin(Z(1), RAdd(R(1, 2), RMul(R(1, 2), RSub(Z(1), ratio)))))

\* gamma_effective = 0.5 + 0.5 * (1 - min(1.0, delay_ratio))
\* gamma_effective = max(0.5, min(1.0, gamma_effective))
gamma_effective(ratio) ==
    RMax(R(1, 2),
         RMin(Z(1), RAdd(R(1, 2), RMul(R(1, 2), RSub(Z(1), RMin(Z(1), ratio))))))

\* the attack run and the honest baseline, on the same seed
timing_calls(alpha, network_delay_ms, block_time_sec, rounds, seed) ==
    <<Selfish(alpha, gamma_effective(delay_ratio(network_delay_ms, block_time_sec)),
              rounds, seed),
      Honest(alpha, rounds, seed)>>

\* the dictionary returned; the division by honest_baseline_ratio raises when
\* the baseline credited no block to the attacker.  threat_level stands for
\* the two labels of the source.
timing_return(alpha, network_delay_ms, block_time_sec, results) ==
    LET attacker_result == results[1]
        honest_result == results[2]
        honest_baseline_ratio ==
            IF RLt(Z(0), alpha)
            THEN RDiv(attacker_relative_reward(honest_result), alpha)
            ELSE Z(1)
        time_advantage_factor ==
            RDiv(efficiency_advantage(attacker_result), honest_baseline_ratio)
    IN  IF honest_baseline_ratio = Z(0) THEN [raised |-> "ZeroDivisionError"]
        ELSE [raised |-> "none",
              alpha |-> alpha,
              network_delay_ms |-> network_delay_ms,
              block_time_sec |-> block_time_sec,
              delay_ratio |-> delay_ratio(network_delay_ms, block_time_sec),
              gamma_effective |->
                  gamma_effective(delay_ratio(network_delay_ms, block_time_sec)),
              attacker_efficiency |-> efficiency_advantage(attacker_result),
              honest_baseline_ratio |-> honest_baseline_ratio,
              time_advantage_factor |-> time_advantage_factor,
              revenue_advantage_btc |->
                  RSub(attacker_revenue_btc(attacker_result),
                       attacker_revenue_btc(honest_result)),
              threat_level |->
                  IF RLt(R(105, 100), time_advantage_factor) THEN "high" ELSE "low"]

----------------------------------------------------------------------------
(* Arguments the public calls are made with *)

Alphas == {R(-25, 100), Z(0), R(25, 100), R(75, 100), Z(1), R(125, 100)}
Gammas == {R(-50, 100), Z(0), R(50, 100), R(90, 100), R(150, 100)}
Rounds == 0 .. MaxRounds
Seeds == {None, Some(1), Some(2)}

\* the composite calls run several simulations: fewer arguments, shorter runs
MaxShortRounds == 2
ShortRounds == 0 .. MaxShortRounds
FewAlphas == {Z(0), R(25, 100), R(75, 100)}
FewGammas == {R(50, 100), R(90, 100)}
FewSeeds == {None, Some(1)}
MaxChains == 2
CrossAlphas == {Z(0), R(25, 100)}
CrossRounds == {0, 1, 2}
MaxSteps == 3
SweepRounds == {0, 1}
SweepAlphas == {Z(0), R(25, 100), R(75, 100)}
ComparisonAlphas == {R(25, 100)}
ComparisonRounds == {0, 1}
PoolAlphas == {R(-25, 100), Z(0), R(1, 100), R(12, 100), R(25, 100)}
PoolCounts == {0, 1, 2, 3}
TimingAlphas == {Z(0), R(25, 100), R(75, 100)}
TimingDelays == {Z(-500), Z(0), Z(500), Z(1000), Z(3000)}
TimingBlockTimes == {Z(1), Z(2)}
TimingGammas == {Z(0), R(9, 10)}
TimingRounds == {0, 1, 2}
MevAlphas == {R(-25, 100), Z(0), R(25, 100), R(75, 100)}
MevProbabilities == {R(3, 10), Z(1)}

\* sessions of several simulate_* calls
MaxCalls == 3
SessionAlphas == {R(25, 100)}
SessionGammas == {Z(0), R(50, 100), R(90, 100)}
SessionRounds == {2}
SessionSeeds == {Some(1)}
ReplayAlphas == {R(25, 100), R(75, 100)}
ReplayRounds == {MaxRounds}

----------------------------------------------------------------------------
(* State machine *)

Idle == [name |-> "idle"]

Init ==
    /\ op = Idle
    /\ sim = NoSim
    /\ rng = Ambient
    /\ tape = <<>>
    /\ out = Idle
    /\ runs = <<>>
    /\ ncalls = 0

\* A public call starts; plan is the sequence of simulate_* calls it makes.
Begin(name, args, plan) ==
    /\ op = Idle
    /\ op' = [name |-> name, args |-> args, plan |-> plan, sims |-> <<>>]
    /\ ncalls' = ncalls + 1
    /\ UNCHANGED <<sim, rng, tape, out, runs>>

simulate_all_honest(alpha, rounds, seed) ==
    Begin("simulate_all_honest",
          [alpha |-> alpha, rounds |-> rounds, seed |-> seed],
          <<Honest(alpha, rounds, seed)>>)

simulate_selfish_mining(alpha, gamma, rounds, seed) ==
    Begin("simulate_selfish_mining",
          [alpha |-> alpha, gamma |-> gamma, rounds |-> rounds, seed |-> seed],
          <<Selfish(alpha, gamma, rounds, seed)>>)

simulate_selfish_with_defense(alpha, gamma_attack, gamma_defense, rounds, defense_enabled, seed) ==
    Begin("simulate_selfish_with_defense",
          [alpha |-> alpha, gamma_attack |-> gamma_attack,
           gamma_defense |-> gamma_defense, rounds |-> rounds,
           defense_enabled |-> defense_enabled, seed |-> seed],
          with_defense_calls(alpha, gamma_attack, gamma_defense, rounds,
                             defense_enabled, seed))

parameter_sweep_analysis(alpha_min, alpha_max, alpha_steps, gamma_attack, gamma_defense, rounds) ==
    Begin("parameter_sweep_analysis",
          [alpha_min |-> alpha_min, alpha_max |-> alpha_max,
           alpha_steps |-> alpha_steps, gamma_attack |-> gamma_attack,
           gamma_defense |-> gamma_defense, rounds |-> rounds],
          IF sweep_error(alpha_steps) # "none" THEN <<>>
          ELSE sweep_calls(alpha_values(alpha_min, alpha_max, alpha_steps), 1,
                           gamma_attack, gamma_defense, rounds))

cross_chain_attack(alpha, num_chains, gamma, rounds_per_chain, seed) ==
    Begin("cross_chain_attack",
          [alpha |-> alpha, num_chains |-> num_chains, gamma |-> gamma,
           rounds_per_chain |-> rounds_per_chain, seed |-> seed],
          cross_chain_calls(alpha, num_chains, gamma, rounds_per_chain, seed))

defense_mechanism_comparison(alpha, rounds) ==
    Begin("defense_mechanism_comparison",
          [alpha |-> alpha, rounds |-> rounds],
          defense_comparison_calls(alpha, rounds))

pool_cooperative_mining(alpha, num_pools, gamma, rounds, seed) ==
    Begin("pool_cooperative_mining",
          [alpha |-> alpha, num_pools |-> num_pools, gamma |-> gamma,
           rounds |-> rounds, seed |-> seed],
          pool_calls(alpha, num_pools, gamma, rounds, seed))

timing_optimization_attack(alpha, network_delay_ms, block_time_sec, gamma, rounds, seed) ==
    Begin("timing_optimization_attack",
          [alpha |-> alpha, network_delay_ms |-> network_delay_ms,
           block_time_sec |-> block_time_sec, gamma |-> gamma,
           rounds |-> rounds, seed |-> seed],
          timing_calls(alpha, network_delay_ms, block_time_sec, rounds, seed))

mev_transaction_ordering(alpha, mev_extract_probability, avg_mev_per_block, gamma, rounds, seed) ==
    Begin("mev_transaction_ordering",
          [alpha |-> alpha, mev_extract_probability |-> mev_extract_probability,
           avg_mev_per_block |-> avg_mev_per_block, gamma |-> gamma,
           rounds |-> rounds, seed |-> seed],
          mev_calls(alpha, gamma, rounds, seed))

\* entry of a simulate_* function: seeding and the initial locals
Enter ==
    /\ op # Idle
    /\ sim = NoSim
    /\ op.plan # <<>>
    /\ sim' = Frame(Head(op.plan))
    /\ rng' = Seeded(rng, Head(op.plan).seed)
    /\ op' = [op EXCEPT !.plan = Tail(@)]
    /\ UNCHANGED <<tape, out, runs, ncalls>>

HonestRound ==
    /\ sim # NoSim
    /\ sim.call.fn = "honest"
    /\ ~LoopDone(sim)
    /\ \E r \in Draws(tape, rng) :
         LET d == Drawn(tape, rng, r) IN
         /\ sim' = all_honest_round(sim, r)
         /\ rng' = d.rng
         /\ tape' = d.tape
    /\ UNCHANGED <<op, out, runs, ncalls>>

SelfishRound ==
    /\ sim # NoSim
    /\ sim.call.fn = "selfish"
    /\ ~LoopDone(sim)
    /\ \E r \in Draws(tape, rng) :
         LET d == Drawn(tape, rng, r) IN
         IF Forks(sim, r)
         THEN \E r_fork \in Draws(d.tape, d.rng) :
                LET f == Drawn(d.tape, d.rng, r_fork) IN
                /\ sim' = Observed(sim, selfish_round(sim, r, r_fork), r, r_fork)
                /\ rng' = f.rng
                /\ tape' = f.tape
         ELSE /\ sim' = Observed(sim, selfish_round(sim, r, r), r, r)
              /\ rng' = d.rng
              /\ tape' = d.tape
    /\ UNCHANGED <<op, out, runs, ncalls>>

\* the loop is over: the simulate_* function returns to the public call
Return ==
    /\ sim # NoSim
    /\ LoopDone(sim)
    /\ LET done == [call |-> sim.call, result |-> Returned(sim),
                    iterations |-> sim.i, ndraws |-> sim.ndraws,
                    orphans |-> sim.orphans, found |-> sim.found,
                    lost |-> sim.lost, leads |-> sim.leads]
       IN  /\ op' = [op EXCEPT !.sims = Append(@, done)]
           /\ runs' = Append(runs, done)
    /\ sim' = NoSim
    /\ UNCHANGED <<rng, tape, out, ncalls>>

Results(o) == [k \in 1 .. Len(o.sims) |-> o.sims[k].result]

\* the value a public call returns, from the results of its simulate_* calls
Value(o) ==
    CASE o.name = "simulate_all_honest" -> Results(o)[1]
      [] o.name = "simulate_selfish_mining" -> Results(o)[1]
      [] o.name = "simulate_selfish_with_defense" ->
            with_defense_return(o.args.defense_enabled, Results(o))
      [] o.name = "parameter_sweep_analysis" ->
            sweep_return(o.args.alpha_min, o.args.alpha_max, o.args.alpha_steps,
                         Results(o))
      [] o.name = "cross_chain_attack" ->
            cross_chain_return(o.args.num_chains, Results(o))
      [] o.name = "defense_mechanism_comparison" ->
            defense_comparison_return(Results(o))
      [] o.name = "pool_cooperative_mining" -> pool_return(o.args.alpha, Results(o))
      [] o.name = "timing_optimization_attack" ->
            timing_return(o.args.alpha, o.args.network_delay_ms,
                          o.args.block_time_sec, Results(o))
      [] o.name = "mev_transaction_ordering" ->
            mev_return(o.args.alpha, o.args.mev_extract_probability,
                       o.args.avg_mev_per_block, Results(o))

\* the public call returns
Finish ==
    /\ op # Idle
    /\ sim = NoSim
    /\ op.plan = <<>>
    /\ out' = [name |-> op.name, args |-> op.args, sims |-> op.sims,
               value |-> Value(op)]
    /\ op' = Idle
    /\ UNCHANGED <<sim, rng, tape, runs, ncalls>>

\* the steps of the call in progress
Step ==
    \/ Enter
    \/ HonestRound
    \/ SelfishRound
    \/ Return
    \/ Finish

\* One public call, made in a fresh process.
Next ==
    \/ \E alpha \in Alphas, rounds \in Rounds, seed \in Seeds :
         ncalls = 0 /\ simulate_all_honest(alpha, rounds, seed)
    \/ \E alpha \in Alphas, gamma \in Gammas, rounds \in Rounds, seed \in Seeds :
         ncalls = 0 /\ simulate_selfish_mining(alpha, gamma, rounds, seed)
    \/ \E alpha \in FewAlphas, gamma_attack \in FewGammas, gamma_defense \in FewGammas,
          rounds \in ShortRounds, defense_enabled \in BOOLEAN, seed \in FewSeeds :
         ncalls = 0 /\ simulate_selfish_with_defense(alpha, gamma_attack, gamma_defense,
                                                     rounds, defense_enabled, seed)
    \/ \E alpha_min \in SweepAlphas, alpha_max \in SweepAlphas, alpha_steps \in -1 .. MaxSteps,
          rounds \in SweepRounds :
         ncalls = 0 /\ parameter_sweep_analysis(alpha_min, alpha_max, alpha_steps,
                                                R(9, 10), R(5, 10), rounds)
    \/ \E alpha \in CrossAlphas, num_chains \in 0 .. MaxChains, gamma \in FewGammas,
          rounds_per_chain \in CrossRounds, seed \in FewSeeds :
         ncalls = 0 /\ cross_chain_attack(alpha, num_chains, gamma, rounds_per_chain, seed)
    \/ \E alpha \in ComparisonAlphas, rounds \in ComparisonRounds :
         ncalls = 0 /\ defense_mechanism_comparison(alpha, rounds)
    \/ \E alpha \in PoolAlphas, num_pools \in PoolCounts, rounds \in ShortRounds,
          seed \in FewSeeds :
         ncalls = 0 /\ pool_cooperative_mining(alpha, num_pools, R(9, 10), rounds, seed)
    \/ \E alpha \in TimingAlphas, network_delay_ms \in TimingDelays,
          block_time_sec \in TimingBlockTimes, gamma \in TimingGammas,
          rounds \in TimingRounds, seed \in FewSeeds :
         ncalls = 0 /\ timing_optimization_attack(alpha, network_delay_ms, block_time_sec,
                                                  gamma, rounds, seed)
    \/ \E alpha \in MevAlphas, mev_extract_probability \in MevProbabilities,
          rounds \in ShortRounds, seed \in FewSeeds :
         ncalls = 0 /\ mev_transaction_ordering(alpha, mev_extract_probability, R(25, 10),
                                                R(9, 10), rounds, seed)
    \/ Step

Spec == Init /\ [][Next]_vars

\* A process that makes up to MaxCalls simulate_* calls one after the other,
\* seeded or not, on the one shared generator.
SessionNext ==
    \/ \E alpha \in SessionAlphas, rounds \in SessionRounds, seed \in FewSeeds :
         ncalls < MaxCalls /\ simulate_all_honest(alpha, rounds, seed)
    \/ \E alpha \in SessionAlphas, gamma \in SessionGammas, rounds \in SessionRounds,
          seed \in SessionSeeds :
         ncalls < MaxCalls /\ simulate_selfish_mining(alpha, gamma, rounds, seed)
    \/ Step

Session == Init /\ [][SessionNext]_vars

\* A process that replays simulate_selfish_mining on the same seed, alpha and
\* rounds, with one gamma or another.
ReplayNext ==
    \/ \E alpha \in ReplayAlphas, gamma \in SessionGammas, rounds \in ReplayRounds,
          seed \in SessionSeeds :
         ncalls < MaxCalls /\ simulate_selfish_mining(alpha, gamma, rounds, seed)
    \/ Enter
    \/ SelfishRound
    \/ Return
    \/ Finish

Replay == Init /\ [][ReplayNext]_vars

----------------------------------------------------------------------------
(* Properties *)

\* the simulate_* calls finished so far
FinishedSims == {runs[k] : k \in 1 .. Len(runs)}
SelfishSims == {f \in FinishedSims : f.call.fn = "selfish"}
HonestSims == {f \in FinishedSims : f.call.fn = "honest"}

\* C1: in every result returned by simulate_all_honest or
\* simulate_selfish_mining, total_blocks is attacker_blocks + honest_blocks,
\* and the two relative rewards add up to 1 whenever total_blocks > 0.
C1_Conservation ==
    \A f \in FinishedSims :
        /\ total_blocks(f.result) = f.result.attacker_blocks + f.result.honest_blocks
        /\ total_blocks(f.result) > 0 =>
              RAdd(attacker_relative_reward(f.result),
                   honest_relative_reward(f.result)) = Z(1)

\* a selfish run that credited blocks to both sides and orphaned one
C1_Witness ==
    \E f \in SelfishSims :
        /\ f.result.attacker_blocks > 0
        /\ f.result.attacker_blocks < f.call.rounds
        /\ f.orphans > 0

\* C2: after k iterations of the selfish loop, attacker_blocks + honest_blocks
\* + lead + orphans = k, so the blocks returned are rounds - orphans <= rounds;
\* every round of simulate_all_honest credits exactly one side, so it returns
\* attacker_blocks + honest_blocks = rounds.
C2_RoundAccounting ==
    /\ (sim # NoSim /\ sim.call.fn = "selfish") =>
          sim.attacker_blocks + sim.honest_blocks + sim.lead + sim.orphans = sim.i
    /\ (sim # NoSim /\ sim.call.fn = "honest") =>
          sim.attacker_blocks + sim.honest_blocks = sim.i
    /\ \A f \in SelfishSims :
          /\ total_blocks(f.result) = f.call.rounds - f.orphans
          /\ total_blocks(f.result) <= f.call.rounds
    /\ \A f \in HonestSims : total_blocks(f.result) = f.call.rounds

\* a selfish run returned fewer blocks than rounds
C2_Witness ==
    \E f \in SelfishSims : f.orphans > 0 /\ total_blocks(f.result) < f.call.rounds

\* C3: with rounds = 0 both simulations consume no draw and return zero
\* blocks, and both relative rewards are 0.
C3_ZeroRounds ==
    \A f \in FinishedSims :
        f.call.rounds = 0 =>
            /\ f.ndraws = 0
            /\ f.iterations = 0
            /\ f.result.attacker_blocks = 0
            /\ f.result.honest_blocks = 0
            /\ total_blocks(f.result) = 0
            /\ attacker_relative_reward(f.result) = Z(0)
            /\ honest_relative_reward(f.result) = Z(0)

C3_Witness ==
    /\ out # Idle
    /\ out.name = "simulate_selfish_mining"
    /\ out.args.rounds = 0
    /\ out.value.attacker_blocks = 0

\* two finished seeded selfish runs on the same alpha, rounds and seed
SameDraws(x, y) ==
    /\ x.call.fn = "selfish" /\ y.call.fn = "selfish"
    /\ x.call.seed # None
    /\ x.call.seed = y.call.seed
    /\ x.call.alpha = y.call.alpha
    /\ x.call.rounds = y.call.rounds

\* C4: with alpha, rounds and the seed fixed, a run of simulate_selfish_mining
\* at a smaller gamma returns no more attacker_blocks and no larger
\* efficiency_advantage than the run at a larger gamma.
C4_GammaMonotone ==
    \A x \in FinishedSims, y \in FinishedSims :
        (SameDraws(x, y) /\ RLe(x.call.gamma, y.call.gamma)) =>
            /\ x.result.attacker_blocks <= y.result.attacker_blocks
            /\ RLe(efficiency_advantage(x.result), efficiency_advantage(y.result))

\* the run at gamma = 0 is strictly below the run at gamma = 0.9
C4_Witness ==
    \E x \in FinishedSims, y \in FinishedSims :
        /\ SameDraws(x, y)
        /\ x.call.gamma = Z(0) /\ y.call.gamma = R(9, 10)
        /\ RLt(efficiency_advantage(x.result), efficiency_advantage(y.result))

\* C5: in defense_mechanism_comparison every strategy's efficiency_advantage
\* is at most that of baseline_no_defense, whatever the draws.
C5_DefenseOrdering ==
    (out # Idle /\ out.name = "defense_mechanism_comparison") =>
        \A k \in 1 .. Len(out.value.strategies) :
            RLe(efficiency_advantage(out.value.strategies[k].result),
                efficiency_advantage(out.value.baseline_no_defense))

\* C6: for num_chains = 1 cross_chain_attack returns multiplier_effect 1 and
\* coordination_overhead_percent 0, with a seed or without.
C6_SingleChainMultiplier ==
    (out # Idle /\ out.name = "cross_chain_attack" /\ out.args.num_chains = 1) =>
        /\ out.value.multiplier_effect = Z(1)
        /\ out.value.coordination_overhead_percent = Z(0)

\* C7: two seeded calls of the same simulation with the same arguments return
\* the same attacker_blocks and honest_blocks, whatever was drawn from the
\* shared generator before and between them.
C7_SeedDeterminism ==
    \A i \in 1 .. Len(runs), j \in 1 .. Len(runs) :
        (runs[i].call = runs[j].call /\ runs[i].call.seed # None) =>
            /\ runs[i].result.attacker_blocks = runs[j].result.attacker_blocks
            /\ runs[i].result.honest_blocks = runs[j].result.honest_blocks

\* the same seeded call twice, with an unseeded call that drew in between
C7_Witness ==
    /\ Len(runs) = 3
    /\ runs[1].call = runs[3].call
    /\ runs[1].call.seed # None
    /\ runs[1].ndraws > 0
    /\ runs[2].call.seed = None
    /\ runs[2].ndraws > 0

\* C8: simulate_selfish_with_defense returns first the run at gamma_attack
\* with the given seed; with defense_enabled false that result is also the
\* second component and no second simulation runs; otherwise the second
\* component is the run at gamma_defense with seed + 1 (unseeded without seed).
C8_WithDefense ==
    (out # Idle /\ out.name = "simulate_selfish_with_defense") =>
        LET a == out.args IN
        /\ out.sims[1].call = Selfish(a.alpha, a.gamma_attack, a.rounds, a.seed)
        /\ out.value[1] = out.sims[1].result
        /\ ~a.defense_enabled =>
              /\ Len(out.sims) = 1
              /\ out.value[2] = out.sims[1].result
        /\ a.defense_enabled =>
              /\ Len(out.sims) = 2
              /\ out.sims[2].call =
                    Selfish(a.alpha, a.gamma_defense, a.rounds,
                            IF a.seed = None THEN None ELSE Some(a.seed[1] + 1))
              /\ out.value[2] = out.sims[2].result

\* a seeded call with the defense enabled whose two runs differ
C8_Witness ==
    /\ out # Idle
    /\ out.name = "simulate_selfish_with_defense"
    /\ out.args.defense_enabled
    /\ out.args.seed # None
    /\ out.value[1].attacker_blocks # out.value[2].attacker_blocks

\* efficiency_advantage of the no-defense run of grid point k
SweepEfficiency(k) == efficiency_advantage(out.sims[2 * k - 1].result)

\* C9: for alpha_steps >= 2, parameter_sweep_analysis returns alpha_steps
\* results in grid order, max_efficiency_gain is the largest
\* efficiency_advantage of the no-defense runs, and optimal_alpha is the first
\* grid alpha that attains it.
C9_SweepArgmax ==
    (out # Idle /\ out.name = "parameter_sweep_analysis" /\ out.args.alpha_steps >= 2) =>
        LET n == out.args.alpha_steps
            grid == alpha_values(out.args.alpha_min, out.args.alpha_max, n)
            v == out.value
            first == CHOOSE k \in 1 .. n :
                        /\ SweepEfficiency(k) = v.max_efficiency_gain
                        /\ \A j \in 1 .. k - 1 :
                              SweepEfficiency(j) # v.max_efficiency_gain
        IN  /\ v.raised = "none"
            /\ Len(v.results) = n
            /\ \A k \in 1 .. n :
                  /\ v.results[k].alpha = grid[k]
                  /\ out.sims[2 * k - 1].call.alpha = grid[k]
                  /\ v.results[k].no_defense = out.sims[2 * k - 1].result
                  /\ v.results[k].efficiency_gain = SweepEfficiency(k)
                  /\ RLe(SweepEfficiency(k), v.max_efficiency_gain)
            /\ \E k \in 1 .. n : SweepEfficiency(k) = v.max_efficiency_gain
            /\ v.optimal_alpha = grid[first]

\* a sweep of three points whose maximum is not at the first point
C9_Witness ==
    /\ out # Idle
    /\ out.name = "parameter_sweep_analysis"
    /\ out.args.alpha_steps = 3
    /\ RLt(Z(0), out.value.max_efficiency_gain)
    /\ out.value.optimal_alpha # out.value.results[1].alpha
    /\ out.value.optimal_alpha = out.value.results[3].alpha

\* C10: simulate_selfish_mining returns after exactly rounds iterations for
\* every alpha and gamma, inside [0, 1] or not, and is never stuck; with
\* alpha <= 0 it returns 0 attacker and rounds honest blocks, with alpha >= 1
\* rounds attacker and 0 honest blocks.
C10_Degenerate ==
    /\ (sim # NoSim /\ sim.call.fn = "selfish") =>
          /\ sim.i <= sim.call.rounds
          /\ ENABLED (SelfishRound \/ Return)
    /\ \A f \in SelfishSims :
          /\ f.iterations = f.call.rounds
          /\ RLe(f.call.alpha, Z(0)) =>
                /\ f.result.attacker_blocks = 0
                /\ f.result.honest_blocks = f.call.rounds
          /\ RLe(Z(1), f.call.alpha) =>
                /\ f.result.attacker_blocks = f.call.rounds
                /\ f.result.honest_blocks = 0

\* a run with alpha > 1 and gamma < 0 that returned every round to the attacker
C10_Witness ==
    \E f \in SelfishSims :
        /\ RLt(Z(1), f.call.alpha)
        /\ RLt(f.call.gamma, Z(0))
        /\ f.call.rounds = MaxRounds
        /\ f.result.attacker_blocks = MaxRounds

\* C11: the derived ratios never divide by zero.  efficiency_advantage is 0
\* whenever alpha <= 0 and attacker_relative_reward / alpha otherwise;
\* revenue_advantage_vs_honest of mev_transaction_ordering is the revenue
\* difference divided by the honest revenue, and by 1 when the honest revenue
\* is 0; both are ratios with a non-zero denominator for every result, one
\* with zero blocks included.
C11_NoDivisionByZero ==
    /\ \A f \in FinishedSims :
          LET e == efficiency_advantage(f.result) IN
          /\ e[2] > 0
          /\ RLe(f.call.alpha, Z(0)) => e = Z(0)
          /\ RLt(Z(0), f.call.alpha) =>
                RMul(e, f.call.alpha) = attacker_relative_reward(f.result)
    /\ (out # Idle /\ out.name = "mev_transaction_ordering") =>
          LET v == out.value
              difference == RSub(v.total_enhanced_revenue_btc, v.honest_revenue_btc)
          IN  /\ v.honest_revenue_btc = honest_revenue_btc(out.sims[1].result)
              /\ v.revenue_advantage_vs_honest[2] > 0
              /\ v.honest_revenue_btc = Z(0) => v.revenue_advantage_vs_honest = difference
              /\ v.honest_revenue_btc # Z(0) =>
                    RMul(v.revenue_advantage_vs_honest, v.honest_revenue_btc) = difference

\* an MEV call whose run credited the attacker alone: no honest revenue, and
\* a positive advantage
C11_Witness ==
    /\ out # Idle
    /\ out.name = "mev_transaction_ordering"
    /\ out.value.honest_revenue_btc = Z(0)
    /\ out.value.mev_extractable_blocks > 0
    /\ RLt(Z(0), out.value.revenue_advantage_vs_honest)

\* a finished honest run x and a finished selfish run y at gamma = 0.9, both
\* at alpha = 0.25, with the same rounds and the same seed
Baseline(x, y) ==
    /\ x.call.fn = "honest" /\ y.call.fn = "selfish"
    /\ x.call.alpha = R(25, 100) /\ y.call.alpha = R(25, 100)
    /\ y.call.gamma = R(9, 10)
    /\ x.call.rounds = y.call.rounds
    /\ x.call.seed # None
    /\ x.call.seed = y.call.seed

\* the forks of a finished selfish run resolved for the attacker's branch
ForksWon(y) == y.ndraws - y.iterations - y.lost

\* C12 as stated: for alpha = 0.25, gamma = 0.9 and the same rounds and seed,
\* simulate_selfish_mining returns a strictly larger attacker_relative_reward
\* than simulate_all_honest.
C12_SelfishAboveBaseline ==
    \A x \in FinishedSims, y \in FinishedSims :
        Baseline(x, y) =>
            RLt(attacker_relative_reward(x.result), attacker_relative_reward(y.result))

\* C12 amended: for alpha = 0.25, gamma = 0.9 and the same rounds and seed, a
\* selfish run that won no fork and orphaned no honest block returns an
\* attacker_relative_reward no larger than the honest baseline; the selfish
\* run can be above the baseline only through a fork won or an orphaned
\* honest block.
C12_AboveOnlyThroughForkOrOrphan ==
    \A x \in FinishedSims, y \in FinishedSims :
        (Baseline(x, y) /\ ForksWon(y) = 0 /\ y.orphans = 0) =>
            RLe(attacker_relative_reward(y.result), attacker_relative_reward(x.result))

\* a selfish run that lost its fork and ended strictly below the baseline
C12_Witness ==
    \E x \in FinishedSims, y \in FinishedSims :
        /\ Baseline(x, y)
        /\ y.lost > 0 /\ ForksWon(y) = 0 /\ y.orphans = 0
        /\ RLt(attacker_relative_reward(y.result), attacker_relative_reward(x.result))

\* a step that runs one iteration of the loop of simulate_selfish_mining
SelfishLoopStep ==
    /\ sim # NoSim /\ sim' # NoSim
    /\ sim.call.fn = "selfish"
    /\ sim'.i = sim.i + 1

\* the draws the generator returned during the step: r, and r_fork if any
RoundDraw == Written(tape', rng)[rng.pos + 1]
ForkDraw == Written(tape', rng)[rng.pos + 2]
DrawsMade == rng'.pos - rng.pos

\* the round of the step is the attacker's (r < alpha) or the honest pool's
AttackerFinds == SelfishLoopStep /\ RLt(RoundDraw, sim.call.alpha)
HonestFinds == SelfishLoopStep /\ ~RLt(RoundDraw, sim.call.alpha)

\* C13: in simulate_selfish_mining lead is 0 on entry to the loop and a
\* non-negative integer in every state of the loop; it never exceeds the
\* number of rounds so far whose draw was below alpha, and it decreases only
\* in a round where the honest pool finds a block.
C13_Lead ==
    [][(sim' # NoSim /\ sim'.call.fn = "selfish") =>
          /\ sim'.i = 0 => sim'.lead = 0
          /\ sim'.lead \in Nat
          /\ sim'.lead <= sim'.found
          /\ (sim # NoSim /\ sim'.lead < sim.lead) => HonestFinds]_vars

\* the attacker found two blocks and the honest pool then one: lead went
\* from 2 to 1
C13_Witness ==
    /\ sim # NoSim
    /\ sim.call.fn = "selfish"
    /\ sim.found = 2 /\ sim.orphans = 1 /\ sim.lead = 1

\* C14: a round where the honest pool finds a block at lead = 1 makes exactly
\* one fork draw besides the round's draw; with the fork draw below gamma
\* attacker_blocks grows by 2 and honest_blocks is unchanged, otherwise
\* honest_blocks grows by 2 and attacker_blocks is unchanged; lead is 0
\* afterwards in both cases.
C14_Fork ==
    [][(HonestFinds /\ sim.lead = 1) =>
          /\ DrawsMade = 2
          /\ sim'.ndraws = sim.ndraws + 2
          /\ sim'.lead = 0
          /\ IF RLt(ForkDraw, sim.call.gamma)
             THEN /\ sim'.attacker_blocks = sim.attacker_blocks + 2
                  /\ sim'.honest_blocks = sim.honest_blocks
             ELSE /\ sim'.honest_blocks = sim.honest_blocks + 2
                  /\ sim'.attacker_blocks = sim.attacker_blocks]_vars

\* the second round was the honest pool's at lead 1 and its fork draw was not
\* below gamma
C14_Witness ==
    /\ sim # NoSim
    /\ sim.call.fn = "selfish"
    /\ sim.i = 2 /\ sim.ndraws = 3
    /\ sim.lost = 1 /\ sim.honest_blocks = 2 /\ sim.lead = 0

\* C15: a round where the honest pool finds a block at lead >= 2 credits one
\* block to the attacker, takes 1 from lead, which stays >= 1, leaves
\* honest_blocks unchanged and makes no fork draw.
C15_Publish ==
    [][(HonestFinds /\ sim.lead >= 2) =>
          /\ sim'.attacker_blocks = sim.attacker_blocks + 1
          /\ sim'.lead = sim.lead - 1
          /\ sim'.lead >= 1
          /\ sim'.honest_blocks = sim.honest_blocks
          /\ DrawsMade = 1
          /\ sim'.ndraws = sim.ndraws + 1]_vars

\* the honest pool found a block while the attacker was 2 ahead
C15_Witness ==
    /\ sim # NoSim
    /\ sim.call.fn = "selfish"
    /\ sim.i = 3 /\ sim.leads = <<1, 2, 1>>
    /\ sim.attacker_blocks = 1 /\ sim.honest_blocks = 0

\* C16: simulate_selfish_mining returns after the last of its rounds
\* iterations; the attacker_blocks returned are those of the loop plus the
\* final lead (the same when the final lead is 0), and honest_blocks is
\* returned as the loop left it; the blocks found by the attacker and not
\* lost in a fork resolved for the honest branch are all credited, the
\* attacker being credited besides with one honest block per fork won.
C16_Settlement ==
    [][(sim # NoSim /\ sim' = NoSim /\ sim.call.fn = "selfish") =>
          LET f == runs'[Len(runs')] IN
          /\ sim.i = sim.call.rounds
          /\ f.result.attacker_blocks = sim.attacker_blocks + sim.lead
          /\ sim.lead = 0 => f.result.attacker_blocks = sim.attacker_blocks
          /\ f.result.honest_blocks = sim.honest_blocks
          /\ f.result.attacker_blocks >= sim.found - sim.lost
          /\ f.result.attacker_blocks =
                (sim.found - sim.lost) + (sim.ndraws - sim.i - sim.lost)]_vars

\* a run that lost a fork and returned with a lead of 1 settled
C16_Witness ==
    \E f \in SelfishSims :
        /\ f.lost = 1
        /\ f.leads = <<1, 0, 1>>
        /\ f.result.attacker_blocks = 1

\* C17: a round whose draw is below alpha adds 1 to lead, whatever lead was,
\* and leaves attacker_blocks and honest_blocks unchanged.
C17_AttackerFinds ==
    [][AttackerFinds =>
          /\ sim'.lead = sim.lead + 1
          /\ sim'.attacker_blocks = sim.attacker_blocks
          /\ sim'.honest_blocks = sim.honest_blocks
          /\ DrawsMade = 1]_vars

\* the attacker found a block at lead 0 and another one at lead 1
C17_Witness ==
    /\ sim # NoSim
    /\ sim.call.fn = "selfish"
    /\ sim.leads = <<1, 2>>
    /\ sim.attacker_blocks = 0 /\ sim.honest_blocks = 0

\* C18: a round where the honest pool finds a block at lead = 0 adds 1 to
\* honest_blocks, leaves attacker_blocks unchanged and lead at 0, and makes
\* no fork draw.
C18_HonestAtZero ==
    [][(HonestFinds /\ sim.lead = 0) =>
          /\ sim'.honest_blocks = sim.honest_blocks + 1
          /\ sim'.attacker_blocks = sim.attacker_blocks
          /\ sim'.lead = 0
          /\ DrawsMade = 1
          /\ sim'.ndraws = sim.ndraws + 1]_vars

\* two honest blocks in a row at lead 0
C18_Witness ==
    /\ sim # NoSim
    /\ sim.call.fn = "selfish"
    /\ sim.leads = <<0, 0>>
    /\ sim.honest_blocks = 2 /\ sim.attacker_blocks = 0 /\ sim.ndraws = 2

\* C19: gamma decides only who is credited at a fork.  Two runs of
\* simulate_selfish_mining on the same alpha, rounds and draws, at different
\* gamma, go through the same lead after every round, make the same number
\* of draws and return the same total_blocks; their attacker_blocks and
\* honest_blocks differ by 2 for each fork resolved differently, and by
\* nothing else.
C19_GammaOnlyAtFork ==
    \A x \in FinishedSims, y \in FinishedSims :
        (SameDraws(x, y) /\ x.call.gamma # y.call.gamma) =>
            /\ x.leads = y.leads
            /\ x.ndraws = y.ndraws
            /\ x.iterations = y.iterations
            /\ x.found = y.found /\ x.orphans = y.orphans
            /\ total_blocks(x.result) = total_blocks(y.result)
            /\ x.result.attacker_blocks - y.result.attacker_blocks =
                  2 * (ForksWon(x) - ForksWon(y))
            /\ x.result.honest_blocks - y.result.honest_blocks =
                  2 * (x.lost - y.lost)

\* the same draws at gamma = 0 and at gamma = 0.9: a fork in the second
\* round, lost by the first run and won by the second, and a round after it
C19_Witness ==
    \E x \in FinishedSims, y \in FinishedSims :
        /\ SameDraws(x, y)
        /\ x.call.gamma = Z(0) /\ y.call.gamma = R(9, 10)
        /\ Len(x.leads) >= 3
        /\ x.leads[1] = 1 /\ x.leads[2] = 0
        /\ x.lost = 1 /\ ForksWon(y) = 1
        /\ x.result.honest_blocks = y.result.honest_blocks + 2

\* C20 as stated: parameter_sweep_analysis called with alpha_steps < 2 fails
\* on the division by alpha_steps - 1 while building the grid, before any
\* simulation, and returns no result.
C20_DivisionBelowTwoSteps ==
    (out # Idle /\ out.name = "parameter_sweep_analysis" /\ out.args.alpha_steps < 2) =>
        /\ out.value.raised = "ZeroDivisionError"
        /\ DOMAIN out.value = {"raised"}
        /\ out.sims = <<>> /\ runs = <<>>

\* C20 amended: parameter_sweep_analysis called with alpha_steps < 2 raises
\* before any simulation is run and any draw is made, and returns no result:
\* with alpha_steps = 1 on the division by alpha_steps - 1 = 0, with
\* alpha_steps <= 0 on alpha_values[0], the grid being empty and nothing
\* divided; with alpha_steps >= 2 it raises nothing.
C20_FailsBelowTwoSteps ==
    (out # Idle /\ out.name = "parameter_sweep_analysis") =>
        /\ out.args.alpha_steps >= 2 => out.value.raised = "none"
        /\ out.args.alpha_steps < 2 =>
              /\ out.value.raised # "none"
              /\ DOMAIN out.value = {"raised"}
              /\ out.sims = <<>> /\ runs = <<>>
              /\ rng = Ambient /\ tape = <<>>
        /\ out.args.alpha_steps = 1 => out.value.raised = "ZeroDivisionError"
        /\ out.args.alpha_steps <= 0 => out.value.raised = "IndexError"

\* a sweep of no step at all has failed on the empty grid
C20_Witness ==
    /\ out # Idle
    /\ out.name = "parameter_sweep_analysis"
    /\ out.args.alpha_steps = 0
    /\ out.value.raised = "IndexError"
    /\ runs = <<>>

\* C21: pool_cooperative_mining runs one simulate_selfish_mining at the
\* effective alpha max(0, alpha - 0.02 * (num_pools - 1)) and returns its
\* result with the alpha field set to the requested alpha: the block counters
\* are those of the run, efficiency_advantage is taken against the requested
\* alpha, and for num_pools = 1 the result is the one
\* simulate_selfish_mining(alpha, gamma, rounds, seed) returns.
C21_PoolRelabel ==
    (out # Idle /\ out.name = "pool_cooperative_mining") =>
        LET a == out.args
            v == out.value
            run == out.sims[1]
            reduced == R(50 * a.alpha[1] - (a.num_pools - 1) * a.alpha[2],
                         50 * a.alpha[2])
            effective == IF RLt(Z(0), reduced) THEN reduced ELSE Z(0)
        IN  /\ Len(out.sims) = 1
            /\ run.call = Selfish(effective, a.gamma, a.rounds, a.seed)
            /\ v.alpha = a.alpha
            /\ v.gamma = a.gamma /\ v.rounds = a.rounds
            /\ v.attacker_blocks = run.result.attacker_blocks
            /\ v.honest_blocks = run.result.honest_blocks
            /\ RLe(a.alpha, Z(0)) => efficiency_advantage(v) = Z(0)
            /\ RLt(Z(0), a.alpha) =>
                  RMul(efficiency_advantage(v), a.alpha) =
                      attacker_relative_reward(run.result)
            /\ a.num_pools = 1 =>
                  IF RLe(Z(0), a.alpha)
                  THEN /\ run.call = Selfish(a.alpha, a.gamma, a.rounds, a.seed)
                       /\ v = run.result
                  ELSE v = SimulationResult(a.alpha, a.gamma, a.rounds, 0, a.rounds)

\* two pools at alpha = 0.12: the run was made at alpha = 0.1, a draw of 0.1
\* went to the honest pool, and the result is labelled 0.12
C21_Witness ==
    /\ out # Idle
    /\ out.name = "pool_cooperative_mining"
    /\ out.args.num_pools = 2
    /\ out.args.alpha = R(12, 100)
    /\ out.sims[1].call.alpha = R(10, 100)
    /\ out.value.alpha = R(12, 100)
    /\ out.args.rounds = 2
    /\ Written(tape, rng) = <<R(10, 100), R(10, 100)>>
    /\ out.value.honest_blocks = 2

\* C22: in timing_optimization_attack the gamma of the attack run depends
\* only on network_delay_ms / (block_time_sec * 1000): the gamma argument
\* enters neither the calls made nor any returned value.  For a positive
\* block time that gamma lies in [0.5, 1.0]; it is 1.0 at delay 0 (and below),
\* 1 - ratio / 2 for a ratio between 0 and 1, and exactly 0.5 whenever the
\* delay is at least the block time.
C22_TimingGamma ==
    (out # Idle /\ out.name = "timing_optimization_attack") =>
        LET a == out.args
            v == out.value
            ratio == R(a.network_delay_ms[1] * a.block_time_sec[2],
                       a.network_delay_ms[2] * a.block_time_sec[1] * 1000)
            g == out.sims[1].call.gamma
            attack == out.sims[1].result
            baseline == out.sims[2].result
        IN  /\ Len(out.sims) = 2
            /\ out.sims[1].call = Selfish(a.alpha, g, a.rounds, a.seed)
            /\ out.sims[2].call = Honest(a.alpha, a.rounds, a.seed)
            /\ RLe(R(1, 2), g) /\ RLe(g, Z(1))
            /\ a.network_delay_ms = Z(0) => g = Z(1)
            /\ RLe(ratio, Z(0)) => g = Z(1)
            /\ (RLe(Z(0), ratio) /\ RLe(ratio, Z(1))) =>
                  RAdd(g, RMul(R(1, 2), ratio)) = Z(1)
            /\ RLe(Z(1), ratio) => g = R(1, 2)
            /\ v.raised = "none" =>
                  /\ v.gamma_effective = g
                  /\ v.delay_ratio = ratio
                  /\ v.alpha = a.alpha
                  /\ v.network_delay_ms = a.network_delay_ms
                  /\ v.block_time_sec = a.block_time_sec
                  /\ v.attacker_efficiency = efficiency_advantage(attack)
                  /\ RMul(v.honest_baseline_ratio,
                          IF RLt(Z(0), a.alpha) THEN a.alpha ELSE Z(1)) =
                        IF RLt(Z(0), a.alpha) THEN attacker_relative_reward(baseline)
                        ELSE Z(1)
                  /\ RMul(v.time_advantage_factor, v.honest_baseline_ratio) =
                        v.attacker_efficiency
                  /\ v.revenue_advantage_btc =
                        RSub(attacker_revenue_btc(attack), attacker_revenue_btc(baseline))
                  /\ v.threat_level =
                        IF RLt(R(105, 100), v.time_advantage_factor) THEN "high" ELSE "low"

\* a call with gamma = 0 and a delay of three block times: the attack run
\* was made at gamma 0.5 and won a fork
C22_Witness ==
    /\ out # Idle
    /\ out.name = "timing_optimization_attack"
    /\ out.args.gamma = Z(0)
    /\ out.args.network_delay_ms = Z(3000) /\ out.args.block_time_sec = Z(1)
    /\ out.sims[1].call.gamma = R(1, 2)
    /\ ForksWon(out.sims[1]) = 1
    /\ out.value.raised = "none"

====
